---- MODULE Spec2Model ----
(***************************************************************************)
(* GitHub aggregation services: the FastAPI routes of src/giter.py         *)
(* (get_github_user, get_github_metrics) and the MCP tools of              *)
(* src/MCP_Server/Evaluation_Server.py (github_dashboard_analysis,         *)
(* get_github_proficiency).  One behaviour of the model is the handling of *)
(* one inbound request: Init draws the operation and its arguments, every  *)
(* action is one outbound GitHub call together with the code that runs     *)
(* until the next call, and the upstream answer of every call is drawn     *)
(* from a small set of responses.                                          *)
(***************************************************************************)
EXTENDS Integers, Sequences, FiniteSets, Bags, TLC

\* ------------------------------------------------------------------ bounds
\* Longest repository listing the upstream returns.
MaxRepos == 2
\* Largest page number carried by a Link header.
MaxPage == 2
\* Most languages in the language map of one repository (PercentageSpec).
MaxLangs == 24
\* Largest byte count of one language (PercentageSpec).
MaxBytes == 2

VARIABLES
    op,            \* the operation that handles the inbound request
    username,      \* its username argument
    token,         \* its token argument (None when absent)
    pc,            \* position of the handler
    repos,         \* the repository listing (repos / repos_json)
    idx,           \* sequential loops: index of the next repository
    task_pc,       \* dashboard: position of each fetch_repo_details coroutine
    lang_resp,     \* per repository: the language response received
    commits_resp,  \* per repository: the commits response received
    repo_data,     \* dashboard: the repo_data record of each coroutine
    completed,     \* dashboard: coroutine indexes in completion order
    all_languages, \* proficiency: language -> accumulated bytes
    recent_commit_score, \* proficiency: accumulated recency score
    total_commits, \* metrics: accumulated commit count
    orgs_json,     \* user: the organizations taken into the response
    orgs_endpoint, \* user: the endpoint that supplied orgs_json
    calls,         \* bag of the endpoints requested so far
    failed,        \* endpoints whose request came back non-2xx
    outcome        \* what the operation returned or raised (Running until then)

vars == <<op, username, token, pc, repos, idx, task_pc, lang_resp, commits_resp,
          repo_data, completed, all_languages, recent_commit_score,
          total_commits, orgs_json, orgs_endpoint, calls, failed, outcome>>

None == "None"

\* ------------------------------------------------------------- sequences
RECURSIVE SumSeq(_)
SumSeq(s) == IF s = <<>> THEN 0 ELSE Head(s) + SumSeq(Tail(s))

Range(s) == {s[k] : k \in 1..Len(s)}

Max(a, b) == IF a >= b THEN a ELSE b

\* ------------------------------------------------------------ Link header
\* A Link header is a list of link-values.  Each link-value has a target URL
\* with query parameters (in order) and a rel attribute.  The header text is
\* rendered to tokens so that the regular expression of the code is applied
\* to the text and not to the structure.
Sym(s) == [t |-> "sym", v |-> s]
Num(n) == [t |-> "num", n |-> n]

IsSym(tok, s) == tok.t = "sym" /\ tok.v = s

Param(k, n) == [key |-> k, val |-> n]
LinkValue(ps, r) == [params |-> ps, rel |-> r]

RECURSIVE RenderParams(_, _)
RenderParams(ps, first) ==
    IF ps = <<>> THEN <<>>
    ELSE <<Sym(IF first THEN "?" ELSE "&"), Sym(Head(ps).key), Sym("="), Num(Head(ps).val)>>
         \o RenderParams(Tail(ps), FALSE)

RenderLinkValue(lv) ==
    <<Sym("<"), Sym("url")>> \o RenderParams(lv.params, TRUE)
    \o <<Sym(">"), Sym("; rel="), Sym(lv.rel)>>

RECURSIVE RenderLink(_)
RenderLink(h) ==
    IF h = <<>> THEN <<>>
    ELSE RenderLinkValue(Head(h))
         \o (IF Tail(h) = <<>> THEN <<>> ELSE <<Sym(", ")>> \o RenderLink(Tail(h)))

\* Whether  &page=(\d+)>; rel="last"  matches the tokens at position k.
LastPageAt(toks, k) ==
    /\ k + 6 <= Len(toks)
    /\ IsSym(toks[k], "&")
    /\ IsSym(toks[k + 1], "page")
    /\ IsSym(toks[k + 2], "=")
    /\ toks[k + 3].t = "num"
    /\ IsSym(toks[k + 4], ">")
    /\ IsSym(toks[k + 5], "; rel=")
    /\ IsSym(toks[k + 6], "last")

\* re.search(r'&page=(\d+)>; rel="last"', link): the positions where the
\* pattern matches; the match object is the leftmost one, None when empty.
LastPageHits(toks) == {k \in 1..Len(toks) : LastPageAt(toks, k)}

ReSearchLastPage(link) == LastPageHits(RenderLink(link)) # {}

\* int(match.group(1)) of the leftmost match.
MatchGroup1(link) ==
    LET toks == RenderLink(link)
        hits == LastPageHits(toks)
    IN  toks[(CHOOSE k \in hits : \A j \in hits : k <= j) + 3].n

\* The Link headers the upstream may send.  GitHub's usual shape lists next,
\* then last, with page as the final query parameter.
StdParams(n) == <<Param("per_page", 1), Param("sha", 1), Param("page", n)>>

LinkHeaders ==
    {<<LinkValue(StdParams(2), "next"), LinkValue(StdParams(n), "last")>> : n \in 1..MaxPage}
    \cup {
        \* page ahead of the other parameters
        <<LinkValue(<<Param("page", MaxPage), Param("per_page", 1)>>, "last")>>,
        \* headers with no rel="last" link-value
        <<LinkValue(StdParams(2), "next")>>,
        <<LinkValue(StdParams(1), "prev"), LinkValue(StdParams(1), "first")>>
      }

\* ------------------------------------------------------------- responses
OkStatus(s) == s >= 200 /\ s < 300

\* A commits response: status, whether a Link header is present and its
\* value, and the number of items len(resp.json()) yields: the commits of the
\* page for a 200, the keys of the error object (message, documentation_url)
\* otherwise.
CommitsResponse(s, present, h, n) ==
    [status |-> s, has_link |-> present, link |-> h, json_len |-> n]

CommitsResponses ==
    {CommitsResponse(200, FALSE, <<>>, n) : n \in 0..1}
    \cup {CommitsResponse(200, TRUE, h, 1) : h \in LinkHeaders}
    \cup {CommitsResponse(409, FALSE, <<>>, 2)}
    \cup {CommitsResponse(500, TRUE, <<LinkValue(StdParams(MaxPage), "last")>>, 2)}

\* A language map is the JSON object of the languages endpoint, in key order.
Lang(l, b) == [lang |-> l, bytes |-> b]

LangMaps == {<<Lang("Python", 3)>>, <<Lang("Python", 1), Lang("Go", 2)>>}

\* The JSON object of a GitHub error: its keys (the values are text, never
\* read as byte counts by the code that checks the status).
ErrorObject == <<Lang("message", 0), Lang("documentation_url", 0)>>

LangResponses ==
    {[status |-> 200, body |-> m] : m \in LangMaps}
    \cup {[status |-> 404, body |-> ErrorObject]}

\* No response received yet.
NoResp == [status |-> 0]

Keys(m) == [k \in 1..Len(m) |-> m[k].lang]

\* A repository of a listing: its name, whether default_branch is set, and
\* updated_at: absent, an ISO timestamp that lies age days back, or text
\* datetime.fromisoformat rejects.
UpdatedAts ==
    {[kind |-> "none", age |-> 0], [kind |-> "iso", age |-> 3],
     [kind |-> "iso", age |-> 200], [kind |-> "malformed", age |-> 0]}

Repo(n, b, u) == [name |-> n, default_branch |-> b, updated_at |-> u]

\* The listings the upstream may return to an operation.  Only the fields the
\* operation reads vary: default_branch for the dashboard, updated_at for
\* the proficiency tool.  The k-th repository is named k.
Listings(o) ==
    UNION {
      {l \in [1..n -> {Repo(k, b, u) : k \in 1..n,
                        b \in IF o = "dashboard" THEN BOOLEAN ELSE {TRUE},
                        u \in IF o = "proficiency" THEN UpdatedAts
                                                   ELSE {[kind |-> "iso", age |-> 3]}}]
           : \A k \in 1..n : l[k].name = k}
      : n \in 0..MaxRepos}

ListingResponses(o) ==
    {[status |-> 200, body |-> l] : l \in Listings(o)}
    \cup {[status |-> s, body |-> <<>>] : s \in {403, 404, 500}}

\* ------------------------------------------------------------- endpoints
Endpoint(kind, repo) == <<kind, repo>>

Called(e) == calls (+) SetToBag({e})

Running == [kind |-> "running"]

\* What an operation hands back: a success payload, the "no repositories"
\* message, a returned {"error": ...} payload, a raised HTTPException, or an
\* uncaught exception.
Success(fields) == [kind |-> "success", payload |-> fields]
NoRepositories(msg) == [kind |-> "no_repositories", message |-> msg]
ErrorPayload(prefix, text) == [kind |-> "error_payload", message |-> <<prefix, text>>]
HTTPException(s, d) == [kind |-> "http_exception", status_code |-> s, detail |-> d]
Uncaught(e) == [kind |-> "exception", type |-> e]

\* resp.text of an upstream error with the given status.
Text(s) == <<"upstream", s>>

\* A handler without the empty-listing check.
NotReposNever(l) == FALSE

\* `if not repos`
NotRepos(l) == l = <<>>

\* An empty dict.
EmptyDict == [l \in {} |-> 0]

NoData == [name |-> 0, languages |-> <<>>, commits |-> 0]

\* ----------------------------------------------------------------- Init
Ops == {"dashboard", "proficiency", "metrics", "user"}
Usernames == {"alice", "Alice", "bob"}
Tokens == {None, "", "pat_alice", "pat_bob"}

Init ==
    /\ op \in Ops
    /\ username \in (IF op = "user" THEN Usernames ELSE {"alice"})
    /\ token \in (IF op = "user" THEN Tokens ELSE {"pat_alice"})
    /\ pc = "start"
    /\ repos = <<>>
    /\ idx = 1
    /\ task_pc = <<>>
    /\ lang_resp = <<>>
    /\ commits_resp = <<>>
    /\ repo_data = <<>>
    /\ completed = <<>>
    /\ all_languages = EmptyDict
    /\ recent_commit_score = 0
    /\ total_commits = 0
    /\ orgs_json = {}
    /\ orgs_endpoint = None
    /\ calls = EmptyBag
    /\ failed = {}
    /\ outcome = Running

\* A call to endpoint e that came back with status s.
Request(e, s) ==
    /\ calls' = Called(e)
    /\ failed' = IF OkStatus(s) THEN failed ELSE failed \cup {e}

\* The operation ends with outcome o.
Return(o) ==
    /\ pc' = "done"
    /\ outcome' = o

\* ------------------------------------------- fetch_repo_details (dashboard)
\* The keys of the body taken without a look at the status.
LanguagesOfUnchecked(r) == Keys(r.body)

\* languages = list(lang_resp.json().keys()) if lang_resp.status_code == 200 else []
LanguagesOf(r) == IF r.status = 200 THEN Keys(r.body) ELSE <<>>

\* The commit count fetch_repo_details leaves in repo_data["commits"], which
\* held prev before the commits response r was looked at.
CommitCount(r, prev) ==
    IF r.status = 200
    THEN IF r.has_link
         THEN IF ReSearchLastPage(r.link) THEN MatchGroup1(r.link) ELSE prev
         ELSE r.json_len
    ELSE prev

\* The results in the order in which the coroutines completed.
GatherAsCompleted(results, order) == [k \in 1..Len(results) |-> results[order[k]]]

\* asyncio.gather(*tasks): the results in the order of the awaitables.
Gather(results, order) == [k \in 1..Len(results) |-> results[k]]

DashboardPayload(repo_details) ==
    [total_repositories |-> Len(repo_details),
     total_commits |-> SumSeq([k \in 1..Len(repo_details) |-> repo_details[k].commits]),
     total_languages |->
        Cardinality(UNION {Range(repo_details[k].languages) : k \in 1..Len(repo_details)}),
     repos |-> repo_details]

\* github_dashboard_analysis up to the fan-out: the repository listing.
DashboardListRepos ==
    /\ op = "dashboard" /\ pc = "start"
    /\ \E r \in ListingResponses(op) :
        /\ Request(Endpoint("repos", 0), r.status)
        /\ IF r.status # 200
           THEN /\ Return(ErrorPayload("Failed to fetch repositories", Text(r.status)))
                /\ UNCHANGED <<repos, task_pc, lang_resp, commits_resp, repo_data>>
           ELSE /\ repos' = r.body
                /\ IF NotRepos(r.body)
                   THEN /\ Return(NoRepositories("No repositories found"))
                        /\ UNCHANGED <<task_pc, lang_resp, commits_resp, repo_data>>
                   ELSE /\ pc' = "gather"
                        /\ task_pc' = [k \in 1..Len(r.body) |-> "languages"]
                        /\ lang_resp' = [k \in 1..Len(r.body) |-> NoResp]
                        /\ commits_resp' = [k \in 1..Len(r.body) |-> NoResp]
                        /\ repo_data' = [k \in 1..Len(r.body) |-> NoData]
                        /\ UNCHANGED outcome
    /\ UNCHANGED <<op, username, token, idx, completed, all_languages,
                   recent_commit_score, total_commits, orgs_json, orgs_endpoint>>

\* Coroutine i from its start to its second await: the languages call and
\* the construction of repo_data.
FetchLanguages(i) ==
    /\ op = "dashboard" /\ pc = "gather"
    /\ i \in 1..Len(repos) /\ task_pc[i] = "languages"
    /\ \E r \in LangResponses :
        /\ Request(Endpoint("languages", repos[i].name), r.status)
        /\ lang_resp' = [lang_resp EXCEPT ![i] = r]
        /\ repo_data' = [repo_data EXCEPT ![i] =
                            [name |-> repos[i].name, languages |-> LanguagesOf(r),
                             commits |-> 0]]
    /\ IF repos[i].default_branch
       THEN /\ task_pc' = [task_pc EXCEPT ![i] = "commits"]
            /\ UNCHANGED completed
       ELSE /\ task_pc' = [task_pc EXCEPT ![i] = "done"]
            /\ completed' = Append(completed, i)
    /\ UNCHANGED <<op, username, token, pc, repos, idx, commits_resp, all_languages,
                   recent_commit_score, total_commits, orgs_json, orgs_endpoint,
                   outcome>>

\* Coroutine i from its second await to its return: the commits call.
FetchCommits(i) ==
    /\ op = "dashboard" /\ pc = "gather"
    /\ i \in 1..Len(repos) /\ task_pc[i] = "commits"
    /\ \E r \in CommitsResponses :
        /\ Request(Endpoint("commits", repos[i].name), r.status)
        /\ commits_resp' = [commits_resp EXCEPT ![i] = r]
        /\ repo_data' = [repo_data EXCEPT ![i].commits = CommitCount(r, @)]
    /\ task_pc' = [task_pc EXCEPT ![i] = "done"]
    /\ completed' = Append(completed, i)
    /\ UNCHANGED <<op, username, token, pc, repos, idx, lang_resp, all_languages,
                   recent_commit_score, total_commits, orgs_json, orgs_endpoint,
                   outcome>>

\* The join of asyncio.gather and the aggregation after it.
DashboardJoin ==
    /\ op = "dashboard" /\ pc = "gather"
    /\ \A k \in 1..Len(repos) : task_pc[k] = "done"
    /\ Return(Success(DashboardPayload(Gather(repo_data, completed))))
    /\ UNCHANGED <<op, username, token, repos, idx, task_pc, lang_resp, commits_resp,
                   repo_data, completed, all_languages, recent_commit_score,
                   total_commits, orgs_json, orgs_endpoint, calls, failed>>

Dashboard ==
    \/ DashboardListRepos
    \/ \E i \in 1..MaxRepos : FetchLanguages(i)
    \/ \E i \in 1..MaxRepos : FetchCommits(i)
    \/ DashboardJoin

\* ------------------------------------------------- get_github_proficiency
\* all_languages[lang] = all_languages.get(lang, 0) + bytes_used, for every
\* item of langs in order.
RECURSIVE Accumulate(_, _)
Accumulate(all, langs) ==
    IF langs = <<>> THEN all
    ELSE LET e == Head(langs)
             had == IF e.lang \in DOMAIN all THEN all[e.lang] ELSE 0
         IN  Accumulate([l \in DOMAIN all \cup {e.lang} |->
                            IF l = e.lang THEN had + e.bytes ELSE all[l]],
                        Tail(langs))

\* `if updated_at`: None and the empty string are falsy.
HasUpdatedAt(u) == u.kind # "none"

\* datetime.fromisoformat(updated_at.replace("Z", "+00:00")) raises ValueError
\* on text that is no ISO timestamp.
FromIsoFormatRaises(u) == u.kind = "malformed"

\* max(0, 100 - delta_days)
RecencyScore(u) == Max(0, 100 - u.age)

\* sum(all_languages.values())
RECURSIVE SumValues(_, _)
SumValues(f, keys) ==
    IF keys = {} THEN 0
    ELSE LET l == CHOOSE x \in keys : TRUE
         IN  f[l] + SumValues(f, keys \ {l})

\* total_bytes = sum(all_languages.values()) or 1
TotalBytes(all) ==
    LET total == SumValues(all, DOMAIN all) IN IF total = 0 THEN 1 ELSE total

\* A rounding that cuts the digits after the second decimal off.
Round2Down(bytes_used, total_bytes) == (bytes_used * 10000) \div total_bytes

\* round((bytes_used / total_bytes) * 100, 2), in hundredths of a percent: the
\* nearest hundredth, a tie to the even one.  round() decides on the double
\* it is given; the quotient is a tie only when bytes_used / total_bytes is
\* an odd multiple of 1/20000, which for totals below 160 is a multiple of
\* 1/32 and so a double that holds the tie exactly.
Round2(bytes_used, total_bytes) ==
    LET q == (bytes_used * 10000) \div total_bytes
        rem == (bytes_used * 10000) % total_bytes
    IN  IF 2 * rem > total_bytes \/ (2 * rem = total_bytes /\ q % 2 = 1)
        THEN q + 1 ELSE q

\* lang_percentage, in hundredths of a percent.
LangPercentage(all) ==
    [l \in DOMAIN all |-> Round2(all[l], TotalBytes(all))]

ProficiencyPayload ==
    [total_repos |-> Len(repos),
     total_languages |-> Cardinality(DOMAIN all_languages),
     recent_activity_score |-> recent_commit_score,
     languages |-> all_languages,
     language_percentage |-> LangPercentage(all_languages)]

ProficiencyListRepos ==
    /\ op = "proficiency" /\ pc = "start"
    /\ \E r \in ListingResponses(op) :
        /\ Request(Endpoint("repos", 0), r.status)
        /\ IF r.status # 200
           THEN /\ Return(ErrorPayload("Error fetching repositories for", Text(r.status)))
                /\ UNCHANGED <<repos, lang_resp>>
           ELSE /\ repos' = r.body
                /\ IF NotRepos(r.body)
                   THEN /\ Return(NoRepositories("No public repositories found"))
                        /\ UNCHANGED lang_resp
                   ELSE /\ pc' = "loop"
                        /\ lang_resp' = [k \in 1..Len(r.body) |-> NoResp]
                        /\ UNCHANGED outcome
    /\ UNCHANGED <<op, username, token, idx, task_pc, commits_resp, repo_data, completed,
                   all_languages, recent_commit_score, total_commits, orgs_json,
                   orgs_endpoint>>

\* One iteration of `for repo in repos`: the recency score, then the
\* languages call.  A ValueError of fromisoformat leaves the tool before the
\* call is made.
ProficiencyRepo ==
    /\ op = "proficiency" /\ pc = "loop" /\ idx <= Len(repos)
    /\ LET u == repos[idx].updated_at IN
       IF HasUpdatedAt(u) /\ FromIsoFormatRaises(u)
       THEN /\ Return(Uncaught("ValueError"))
            /\ UNCHANGED <<idx, lang_resp, all_languages, recent_commit_score, calls,
                           failed>>
       ELSE /\ recent_commit_score' =
                  IF HasUpdatedAt(u) THEN recent_commit_score + RecencyScore(u)
                                     ELSE recent_commit_score
            /\ \E r \in LangResponses :
                /\ Request(Endpoint("languages", repos[idx].name), r.status)
                /\ lang_resp' = [lang_resp EXCEPT ![idx] = r]
                /\ all_languages' = IF r.status = 200
                                    THEN Accumulate(all_languages, r.body)
                                    ELSE all_languages
            /\ idx' = idx + 1
            /\ UNCHANGED <<pc, outcome>>
    /\ UNCHANGED <<op, username, token, repos, task_pc, commits_resp, repo_data,
                   completed, total_commits, orgs_json, orgs_endpoint>>

ProficiencyReturn ==
    /\ op = "proficiency" /\ pc = "loop" /\ idx > Len(repos)
    /\ Return(Success(ProficiencyPayload))
    /\ UNCHANGED <<op, username, token, repos, idx, task_pc, lang_resp, commits_resp,
                   repo_data, completed, all_languages, recent_commit_score,
                   total_commits, orgs_json, orgs_endpoint, calls, failed>>

Proficiency ==
    \/ ProficiencyListRepos
    \/ ProficiencyRepo
    \/ ProficiencyReturn

\* ----------------------------------------------------- github_api_request
\* The statuses the upstream answers a github_api_request call with.
Statuses == {200, 403, 404, 500}

\* resp.ok
RespOk(s) == s < 400

\* Whether github_api_request raises on a response of status s.
Raises(s) == s = 404 \/ s = 403 \/ ~RespOk(s)

\* The HTTPException github_api_request raises on status s.
Classified(s) ==
    IF s = 404 THEN HTTPException(404, <<"User or resource not found.">>)
    ELSE IF s = 403 THEN HTTPException(403, <<"API rate limit exceeded or access denied.">>)
    ELSE HTTPException(s, <<"GitHub API error", Text(s)>>)

\* ----------------------------------------------------- get_github_metrics
\* What one repository adds to total_commits.
MetricsCommits(r) ==
    IF r.has_link
    THEN IF ReSearchLastPage(r.link) THEN MatchGroup1(r.link) ELSE 1
    ELSE r.json_len

MetricsListRepos ==
    /\ op = "metrics" /\ pc = "start"
    /\ \E r \in ListingResponses(op) :
        /\ Request(Endpoint("repos", 0), r.status)
        /\ IF Raises(r.status)
           THEN /\ Return(Classified(r.status))
                /\ UNCHANGED <<repos, commits_resp>>
           ELSE /\ repos' = r.body
                /\ commits_resp' = [k \in 1..Len(r.body) |-> NoResp]
                /\ pc' = "loop"
                /\ UNCHANGED outcome
    /\ UNCHANGED <<op, username, token, idx, task_pc, lang_resp, repo_data, completed,
                   all_languages, recent_commit_score, total_commits, orgs_json,
                   orgs_endpoint>>

\* One iteration of `for repo in repos_json`: requests.get of the commits
\* page, whose status is not looked at.
MetricsRepo ==
    /\ op = "metrics" /\ pc = "loop" /\ idx <= Len(repos)
    /\ \E r \in CommitsResponses :
        /\ Request(Endpoint("commits", repos[idx].name), r.status)
        /\ commits_resp' = [commits_resp EXCEPT ![idx] = r]
        /\ total_commits' = total_commits + MetricsCommits(r)
    /\ idx' = idx + 1
    /\ UNCHANGED <<op, username, token, pc, repos, task_pc, lang_resp, repo_data,
                   completed, all_languages, recent_commit_score, orgs_json,
                   orgs_endpoint, outcome>>

MetricsPulls ==
    /\ op = "metrics" /\ pc = "loop" /\ idx > Len(repos)
    /\ \E s \in Statuses :
        /\ Request(Endpoint("search_pr", 0), s)
        /\ IF Raises(s) THEN Return(Classified(s))
                        ELSE pc' = "issues" /\ UNCHANGED outcome
    /\ UNCHANGED <<op, username, token, repos, idx, task_pc, lang_resp, commits_resp,
                   repo_data, completed, all_languages, recent_commit_score,
                   total_commits, orgs_json, orgs_endpoint>>

MetricsIssues ==
    /\ op = "metrics" /\ pc = "issues"
    /\ \E s \in Statuses :
        /\ Request(Endpoint("search_issue", 0), s)
        /\ IF Raises(s)
           THEN Return(Classified(s))
           ELSE Return(Success([total_public_repos |-> Len(repos),
                                total_commits |-> total_commits]))
    /\ UNCHANGED <<op, username, token, repos, idx, task_pc, lang_resp, commits_resp,
                   repo_data, completed, all_languages, recent_commit_score,
                   total_commits, orgs_json, orgs_endpoint>>

Metrics ==
    \/ MetricsListRepos
    \/ MetricsRepo
    \/ MetricsPulls
    \/ MetricsIssues

\* -------------------------------------------------------- get_github_user
\* `if token`: None and the empty string are falsy.
Truthy(t) == t # None /\ t # ""

\* str.lower() on the logins of the model.
Lower(l) == IF l = "Alice" THEN "alice" ELSE l

\* auth_user_json["login"]: the login GitHub answers /user with for a token.
Owner(t) == IF t = "pat_alice" THEN "alice" ELSE "bob"

\* A token taken for the requested user's whoever owns it.
TokenOwnsUserAlways(login, user) == TRUE

\* auth_user_json["login"].lower() == username.lower()
TokenOwnsUser(login, user) == Lower(login) = Lower(user)

\* What GitHub lists under /users/{username}/orgs and under /user/orgs.
Org(l, v) == [owner |-> Lower(l), visibility |-> v]
PublicOrgs(user) == {Org(user, "public")}
AuthenticatedOrgs(login) == {Org(login, "public"), Org(login, "private")}

\* One github_api_request of the route outside the organizations block: a
\* classified error leaves the route, a 2xx moves it on.
UserQuery(at, kind, next) ==
    /\ op = "user" /\ pc = at
    /\ \E s \in Statuses :
        /\ Request(Endpoint(kind, 0), s)
        /\ IF Raises(s) THEN Return(Classified(s))
                        ELSE pc' = next /\ UNCHANGED outcome
    /\ UNCHANGED <<op, username, token, repos, idx, task_pc, lang_resp, commits_resp,
                   repo_data, completed, all_languages, recent_commit_score,
                   total_commits, orgs_json, orgs_endpoint>>

UserProfile == UserQuery("start", "profile", "user_repos")

UserRepos ==
    UserQuery("user_repos", "repos", IF Truthy(token) THEN "auth_user" ELSE "public_orgs")

\* Inside the try: github_api_request("/user", token) and the comparison of
\* its login with the username.  The bare except leads to the fallback call.
UserAuthUser ==
    /\ op = "user" /\ pc = "auth_user"
    /\ \E s \in Statuses :
        /\ Request(Endpoint("auth_user", 0), s)
        /\ pc' = IF Raises(s) THEN "public_orgs"
                 ELSE IF TokenOwnsUser(Owner(token), username) THEN "auth_orgs"
                 ELSE "public_orgs_try"
    /\ UNCHANGED <<op, username, token, repos, idx, task_pc, lang_resp, commits_resp,
                   repo_data, completed, all_languages, recent_commit_score,
                   total_commits, orgs_json, orgs_endpoint, outcome>>

\* Inside the try: github_api_request("/user/orgs", token).
UserAuthOrgs ==
    /\ op = "user" /\ pc = "auth_orgs"
    /\ \E s \in Statuses :
        /\ Request(Endpoint("auth_orgs", 0), s)
        /\ IF Raises(s)
           THEN pc' = "public_orgs" /\ UNCHANGED <<orgs_json, orgs_endpoint>>
           ELSE /\ pc' = "gists"
                /\ orgs_json' = AuthenticatedOrgs(Owner(token))
                /\ orgs_endpoint' = "/user/orgs"
    /\ UNCHANGED <<op, username, token, repos, idx, task_pc, lang_resp, commits_resp,
                   repo_data, completed, all_languages, recent_commit_score,
                   total_commits, outcome>>

\* Inside the try, the token being another user's:
\* github_api_request(f"/users/{username}/orgs", token).
UserPublicOrgsTry ==
    /\ op = "user" /\ pc = "public_orgs_try"
    /\ \E s \in Statuses :
        /\ Request(Endpoint("public_orgs", 0), s)
        /\ IF Raises(s)
           THEN pc' = "public_orgs" /\ UNCHANGED <<orgs_json, orgs_endpoint>>
           ELSE /\ pc' = "gists"
                /\ orgs_json' = PublicOrgs(username)
                /\ orgs_endpoint' = "/users/{username}/orgs"
    /\ UNCHANGED <<op, username, token, repos, idx, task_pc, lang_resp, commits_resp,
                   repo_data, completed, all_languages, recent_commit_score,
                   total_commits, outcome>>

\* github_api_request(f"/users/{username}/orgs", token) of the except block
\* and of the branch without a token: nothing catches its error.
UserPublicOrgs ==
    /\ op = "user" /\ pc = "public_orgs"
    /\ \E s \in Statuses :
        /\ Request(Endpoint("public_orgs", 0), s)
        /\ IF Raises(s)
           THEN Return(Classified(s)) /\ UNCHANGED <<orgs_json, orgs_endpoint>>
           ELSE /\ pc' = "gists"
                /\ orgs_json' = PublicOrgs(username)
                /\ orgs_endpoint' = "/users/{username}/orgs"
                /\ UNCHANGED outcome
    /\ UNCHANGED <<op, username, token, repos, idx, task_pc, lang_resp, commits_resp,
                   repo_data, completed, all_languages, recent_commit_score,
                   total_commits>>

UserGists == UserQuery("gists", "gists", "events")

UserEvents ==
    /\ op = "user" /\ pc = "events"
    /\ \E s \in Statuses :
        /\ Request(Endpoint("events", 0), s)
        /\ IF Raises(s)
           THEN Return(Classified(s))
           ELSE Return(Success([profile |-> Lower(username), organizations |-> orgs_json]))
    /\ UNCHANGED <<op, username, token, repos, idx, task_pc, lang_resp, commits_resp,
                   repo_data, completed, all_languages, recent_commit_score,
                   total_commits, orgs_json, orgs_endpoint>>

User ==
    \/ UserProfile
    \/ UserRepos
    \/ UserAuthUser
    \/ UserAuthOrgs
    \/ UserPublicOrgsTry
    \/ UserPublicOrgs
    \/ UserGists
    \/ UserEvents

Next == Dashboard \/ Proficiency \/ Metrics \/ User

Spec == Init /\ [][Next]_vars

\* ------------------------------------------- the percentages of wide maps
\* The language map with counts[b] languages of b bytes each, the languages
\* named 1, 2, ... in order of their byte counts (the percentages and their
\* sum do not depend on the order of the keys).
RECURSIVE WideMap(_, _, _)
WideMap(counts, b, named) ==
    IF b > MaxBytes THEN <<>>
    ELSE [k \in 1..counts[b] |-> Lang(named + k, b)]
         \o WideMap(counts, b + 1, named + counts[b])

WideMaps ==
    {WideMap(c, 0, 0) : c \in {c \in [0..MaxBytes -> 0..MaxLangs] :
                                 SumValues(c, 0..MaxBytes) \in 1..MaxLangs}}

\* get_github_proficiency after its loop went over a listing of one
\* repository whose languages call answered 200 with the map m.
PercentageInit ==
    /\ op = "proficiency"
    /\ username = "alice"
    /\ token = "pat_alice"
    /\ pc = "loop"
    /\ repos = <<Repo(1, TRUE, [kind |-> "iso", age |-> 3])>>
    /\ idx = 2
    /\ task_pc = <<>>
    /\ \E m \in WideMaps :
        /\ lang_resp = <<[status |-> 200, body |-> m]>>
        /\ all_languages = Accumulate(EmptyDict, m)
    /\ commits_resp = <<>>
    /\ repo_data = <<>>
    /\ completed = <<>>
    /\ recent_commit_score = RecencyScore([kind |-> "iso", age |-> 3])
    /\ total_commits = 0
    /\ orgs_json = {}
    /\ orgs_endpoint = None
    /\ calls = SetToBag({Endpoint("repos", 0), Endpoint("languages", 1)})
    /\ failed = {}
    /\ outcome = Running

PercentageNext == ProficiencyReturn

PercentageSpec == PercentageInit /\ [][PercentageNext]_vars

\* ================================================================ claims
Dash == op = "dashboard"
Done == pc = "done"

\* The listing call came back 200.
ListingOk == <<"repos", 0>> \in BagToSet(calls) /\ <<"repos", 0>> \notin failed

\* The Link header h carries page=n on a link-value whose rel is "last".
CarriesLastPage(h, n) ==
    \E lv \in Range(h) : lv.rel = "last" /\ \E q \in Range(lv.params) : q.key = "page" /\ q.val = n

\* Repository k of the dashboard has a commits response.
HasCommitsResp(k) == task_pc[k] = "done" /\ commits_resp[k].status # 0

\* C1: github_dashboard_analysis returns a "repos" list as long as the
\* listing whose k-th entry is the detail record of the k-th repository of
\* the listing, whatever the order in which the coroutines completed.
C1_ReposInListingOrder ==
    (Dash /\ outcome.kind = "success") =>
        LET out == outcome.payload.repos IN
        /\ Len(out) = Len(repos)
        /\ \A k \in 1..Len(repos) :
            /\ out[k].name = repos[k].name
            /\ out[k].languages = LanguagesOf(lang_resp[k])
            /\ out[k] = repo_data[k]

\* C1 witness: a payload was returned after the second coroutine completed
\* ahead of the first.
C1_Witness ==
    /\ Dash /\ outcome.kind = "success"
    /\ Len(repos) >= 2
    /\ completed[1] # 1

\* C2: a repository whose commits response (status 200) carries a Link header
\* with page=N on its rel="last" link-value is reported with N commits.
C2_LastPageIsCommitCount ==
    Dash => \A k \in 1..Len(repos) :
        (HasCommitsResp(k) /\ commits_resp[k].status = 200 /\ commits_resp[k].has_link) =>
            \A n \in 1..MaxPage :
                CarriesLastPage(commits_resp[k].link, n) => repo_data[k].commits = n

\* A Link header is present and carries no rel="last" page number.
Unresolvable(r) ==
    /\ r.status # 0
    /\ r.has_link
    /\ ~\E n \in 0..MaxPage : CarriesLastPage(r.link, n)

\* C3: a repository whose Link header is present without a rel="last" page
\* number counts zero commits, in fetch_repo_details and in what it adds to
\* total_commits in get_github_metrics.
C3_UnresolvableCountsZero ==
    /\ [](Dash => \A k \in 1..Len(repos) :
            (task_pc[k] = "done" /\ Unresolvable(commits_resp[k]))
                => repo_data[k].commits = 0)
    /\ [][(op = "metrics" /\ pc = "loop" /\ idx' = idx + 1
             /\ Unresolvable(commits_resp'[idx]))
            => total_commits' = total_commits]_vars

\* Two logins name the same account: GitHub logins are case-insensitive.
SameLogin(a, b) == Lower(a) = Lower(b)

TokenOfRequestedUser == Truthy(token) /\ SameLogin(Owner(token), username)

\* C4: get_github_user takes the organizations from /user/orgs only when a
\* token is supplied and its owner is the requested user; otherwise /user/orgs
\* is not even requested and a response carries exactly the public
\* organizations of the requested user, from /users/{username}/orgs.
C4_OrgsVisibility ==
    op = "user" =>
        /\ orgs_endpoint = "/user/orgs" => TokenOfRequestedUser
        /\ ~TokenOfRequestedUser =>
            /\ <<"auth_orgs", 0>> \notin BagToSet(calls)
            /\ outcome.kind = "success" =>
                /\ orgs_endpoint = "/users/{username}/orgs"
                /\ outcome.payload.organizations = PublicOrgs(username)

\* C4 witness: alice's profile was returned to a request that carried bob's
\* token.
C4_Witness ==
    /\ op = "user" /\ username = "alice" /\ token = "pat_bob"
    /\ outcome.kind = "success"
    /\ <<"auth_user", 0>> \in BagToSet(calls) /\ <<"auth_user", 0>> \notin failed

\* C5: when one of the five queries of get_github_user (profile, repositories,
\* organizations, gists, events) failed with a classified error, the route
\* ends with an HTTPException and returns no response.
C5_FailedQueryAborts ==
    (op = "user" /\ Done
        /\ \E e \in failed : e[1] \in {"profile", "repos", "public_orgs", "gists", "events"})
    => outcome.kind = "http_exception"

\* C6: no endpoint is requested again after a request to it failed.
C6_NoRetry ==
    [][\A e \in BagToSet(calls') :
        CopiesIn(e, calls') > CopiesIn(e, calls) => e \notin failed]_vars

\* C7: a non-2xx answer to the repository listing or to a commits call ends
\* the dashboard, proficiency and metrics operations in an error outcome.
C7_UpstreamFailurePropagates ==
    (op \in {"dashboard", "proficiency", "metrics"} /\ Done
        /\ \E e \in failed : e[1] \in {"repos", "commits"})
    => outcome.kind \in {"http_exception", "error_payload"}

\* The language totals of the repositories whose language fetch came back 200.
RECURSIVE LanguagesOfOk(_)
LanguagesOfOk(k) ==
    IF k = 0 THEN EmptyDict
    ELSE IF lang_resp[k].status = 200
         THEN Accumulate(LanguagesOfOk(k - 1), lang_resp[k].body)
         ELSE LanguagesOfOk(k - 1)

LangFailed(k) == lang_resp[k].status \notin {0, 200}

\* C8: a non-200 language fetch gives its repository an empty language list
\* (dashboard) or no language bytes (proficiency) and does not end the
\* operation: the dashboard returns a payload with an entry for every
\* repository, the proficiency tool goes on to the next repository and its
\* summary counts every repository.
C8_LanguageFailureDegrades ==
    /\ (Dash /\ repos # <<>>) =>
        /\ \A k \in 1..Len(repos) : LangFailed(k) => repo_data[k].languages = <<>>
        /\ outcome.kind \in {"running", "success"}
        /\ outcome.kind = "success" =>
            /\ Len(outcome.payload.repos) = Len(repos)
            /\ \A k \in 1..Len(repos) :
                LangFailed(k) => outcome.payload.repos[k].languages = <<>>
    /\ (op = "proficiency" /\ repos # <<>>) =>
        /\ all_languages = LanguagesOfOk(idx - 1)
        /\ \A k \in 1..Len(repos) : LangFailed(k) => k < idx
        /\ outcome.kind = "exception" =>
            (idx <= Len(repos) /\ FromIsoFormatRaises(repos[idx].updated_at))
        /\ outcome.kind \in {"running", "success", "exception"}
        /\ outcome.kind = "success" =>
            /\ outcome.payload.total_repos = Len(repos)
            /\ outcome.payload.languages = LanguagesOfOk(Len(repos))

\* C8 witness: the dashboard returned its payload although the language fetch
\* of one repository failed and that of another succeeded.
C8_Witness ==
    /\ Dash /\ outcome.kind = "success"
    /\ \E j, k \in 1..Len(repos) : LangFailed(j) /\ lang_resp[k].status = 200

\* C9: on an empty listing the dashboard and the proficiency tool return the
\* "no repositories" result and request nothing but the listing.
C9_EmptyListing ==
    (op \in {"dashboard", "proficiency"} /\ ListingOk /\ repos = <<>>) =>
        /\ Done
        /\ outcome.kind = "no_repositories"
        /\ calls = SetToBag({<<"repos", 0>>})

\* C9 witness: the proficiency tool ended on an empty listing.
C9_Witness ==
    /\ op = "proficiency" /\ ListingOk /\ repos = <<>> /\ Done

\* C10: with a repository whose updated_at is malformed in the listing,
\* get_github_proficiency still ends with its summary.
C10_MalformedTimestampSkipped ==
    (op = "proficiency" /\ Done /\ ListingOk
        /\ \E k \in 1..Len(repos) : repos[k].updated_at.kind = "malformed")
    => (outcome.kind = "success" /\ outcome.payload.total_repos = Len(repos))

\* The language_percentage of a returned summary and the bytes behind it.
Percentages == outcome.payload.language_percentage
Returned == op = "proficiency" /\ outcome.kind = "success"
PositiveTotal == SumValues(outcome.payload.languages, DOMAIN outcome.payload.languages) > 0

\* How far the percentages are from summing to 100, in hundredths of a percent.
Deviation ==
    LET sum == SumValues(Percentages, DOMAIN Percentages)
    IN  IF sum >= 10000 THEN sum - 10000 ELSE 10000 - sum

\* C11 as claimed: whatever the number of languages, the percentages of a
\* map whose total is positive sum to within 0.1 of 100.
C11_SumWithinTenth ==
    (Returned /\ PositiveTotal) => Deviation <= 10

\* C11 as amended: the percentages of a map whose total is positive sum to
\* within 0.005 per language of 100, and so to within 0.1 of 100 when the map
\* has at most 20 languages.
C11_SumWithinHalfHundredthPerLanguage ==
    (Returned /\ PositiveTotal) =>
        /\ 2 * Deviation <= Cardinality(DOMAIN Percentages)
        /\ Cardinality(DOMAIN Percentages) <= 20 => Deviation <= 10

\* C11 witness: a summary over three or more languages whose percentages do
\* not sum to 100 exactly.
C11_Witness ==
    /\ Returned /\ PositiveTotal
    /\ Cardinality(DOMAIN Percentages) >= 3
    /\ Deviation > 0

====
